---- MODULE Spec2Model ----
(***************************************************************************)
(* Model of downloader.py: the Google Drive dataset downloader.            *)
(*                                                                         *)
(*   _is_zip_response                  the Response Classifier             *)
(*   _extract_download_url_from_html   the Interstitial URL Extractor      *)
(*   _download_gdrive_zip              the Acquisition Orchestrator and    *)
(*                                     the Archive Validator               *)
(*   _extract_csvs                     the Extraction Engine               *)
(*   ensure_dataset                    acquire                             *)
(*                                                                         *)
(* Header values and byte prefixes are sequences of characters / bytes so  *)
(* that lower-casing, substring search and prefix tests are computed as    *)
(* the code computes them.                                                 *)
(***************************************************************************)
EXTENDS Integers, Sequences, FiniteSets, TLC

(***************************************************************************)
(* Bounds of the model.                                                    *)
(***************************************************************************)
\* header values are concatenations of at most MaxParts fragments
MaxParts == 2
\* an archive holds at most MaxEntries entries
MaxEntries == 2

(***************************************************************************)
(* Characters and strings.                                                 *)
(***************************************************************************)
UpperChars == <<"A","B","C","D","E","F","G","H","I","J","K","L","M",
                "N","O","P","Q","R","S","T","U","V","W","X","Y","Z">>
LowerChars == <<"a","b","c","d","e","f","g","h","i","j","k","l","m",
                "n","o","p","q","r","s","t","u","v","w","x","y","z">>

\* str.lower() on one character
LowerChar(c) ==
    IF \E i \in 1..26 : UpperChars[i] = c
    THEN LowerChars[CHOOSE i \in 1..26 : UpperChars[i] = c]
    ELSE c

\* str.lower()
Lower(s) == [i \in 1..Len(s) |-> LowerChar(s[i])]

\* needle in hay  (Python's substring test)
Contains(hay, needle) ==
    \E k \in 0..(Len(hay) - Len(needle)) :
        SubSeq(hay, k + 1, k + Len(needle)) = needle

\* hay.startswith(prefix)
StartsWith(hay, prefix) ==
    /\ Len(hay) >= Len(prefix)
    /\ SubSeq(hay, 1, Len(prefix)) = prefix

\* An optional header: resp.headers.get(...) is None when the header is absent.
None == [present |-> FALSE, val |-> <<>>]
Some(s) == [present |-> TRUE, val |-> s]
\* (x or "")
OrEmpty(h) == IF h.present THEN h.val ELSE <<>>

\* b"PK\x03\x04"
ZIP_MAGIC == <<80, 75, 3, 4>>
\* "application/zip"
APPLICATION_ZIP == <<"a","p","p","l","i","c","a","t","i","o","n","/","z","i","p">>
\* "application/octet-stream"
APPLICATION_OCTET_STREAM ==
    <<"a","p","p","l","i","c","a","t","i","o","n","/",
      "o","c","t","e","t","-","s","t","r","e","a","m">>
\* "attachment"
ATTACHMENT == <<"a","t","t","a","c","h","m","e","n","t">>

(***************************************************************************)
(* _is_zip_response (downloader.py 39-49)                                  *)
(***************************************************************************)
\* a plausible slip: the headers are consulted first and a text/html
\* Content-Type settles the answer before the magic bytes are looked at
is_zip_response_headers_first(content_type, content_disp, first_bytes) ==
    LET ct == Lower(OrEmpty(content_type))
        cd == Lower(OrEmpty(content_disp))
    IN  IF Contains(ct, APPLICATION_ZIP) THEN TRUE
        ELSE IF Contains(ct, APPLICATION_OCTET_STREAM) THEN Contains(cd, ATTACHMENT)
        ELSE IF ct # <<>> THEN FALSE
        ELSE StartsWith(first_bytes, ZIP_MAGIC)

_is_zip_response(content_type, content_disp, first_bytes) ==
    LET ct == Lower(OrEmpty(content_type))
        cd == Lower(OrEmpty(content_disp))
    IN  IF StartsWith(first_bytes, ZIP_MAGIC) THEN TRUE
        ELSE IF Contains(ct, APPLICATION_ZIP) THEN TRUE
        ELSE IF Contains(ct, APPLICATION_OCTET_STREAM) /\ Contains(cd, ATTACHMENT) THEN TRUE
        ELSE FALSE

(***************************************************************************)
(* Interstitial pages and _extract_download_url_from_html (52-94).         *)
(* A page is the decoded text s (lines 54-58), described by what the       *)
(* regular expressions of the extractor find in it: the action of the      *)
(* first <form>, the <input name= value=> pairs in document order, which   *)
(* of the four link patterns match, and the text after each "confirm=".    *)
(* A URL is written as its leading characters, which the prefix tests     *)
(* read, and the rest.  Values are sequences of characters.                *)
(***************************************************************************)
Str(lead, rest) == [lead |-> lead, rest |-> rest]
HTTP == <<"h","t","t","p">>
HTTPS == <<"h","t","t","p","s">>
SLASH == <<"/">>

\* FILE_ID (line 30)
FILE_ID == <<"1","H","J","g","F","2","5","M","5","F","q","8","L","b","V","2","X",
             "M","W","W","x","p","_","A","p","T","1","T","b","q","b","I","n">>

NoUrl == [kind |-> "none", base |-> Str(<<>>, ""), params |-> <<>>]

\* re.search found no <form ... action="...">
NoAction == Str(<<>>, "")

\* the dict comprehension's key order (line 68)
RecognizedParams == <<"id", "export", "confirm", "uuid">>

\* smallest and largest element of a non-empty set of integers
MinOf(S) == CHOOSE x \in S : \A y \in S : x <= y
MaxOf(S) == CHOOSE x \in S : \A y \in S : x >= y

\* dict(re.findall(...)), line 65: of two pairs with one name the later wins
dict(pairs) ==
    [k \in { pairs[i][1] : i \in DOMAIN pairs } |->
        pairs[MaxOf({ i \in DOMAIN pairs : pairs[i][1] = k })][2]]

\* inputs.setdefault(key, value), line 67
setdefault(inputs, key, value) ==
    [k \in DOMAIN inputs \cup {key} |-> IF k \in DOMAIN inputs THEN inputs[k] ELSE value]

\* urllib.parse.quote_plus on one character: letters, digits and _ . - ~ stay,
\* a space becomes +, anything else its percent code
Digits == <<"0","1","2","3","4","5","6","7","8","9">>
Range(s) == { s[i] : i \in DOMAIN s }
Unreserved == Range(UpperChars) \cup Range(LowerChars) \cup Range(Digits) \cup {"_", ".", "-", "~"}
quote_plus_char(c) ==
    IF c \in Unreserved THEN <<c>>
    ELSE CASE c = " " -> <<"+">>
           [] c = "/" -> <<"%","2","F">>
           [] c = "&" -> <<"%","2","6">>
           [] c = "=" -> <<"%","3","D">>
           [] c = "+" -> <<"%","2","B">>
           [] OTHER   -> <<"%","2","2">>
RECURSIVE quote_plus(_)
quote_plus(v) ==
    IF v = <<>> THEN <<>> ELSE quote_plus_char(Head(v)) \o quote_plus(Tail(v))

\* urlencode(params), line 70: every value quoted, the order kept (the four
\* recognized keys have nothing to quote)
urlencode(params) == [i \in DOMAIN params |-> <<params[i][1], quote_plus(params[i][2])>>]

\* a variant of line 68 that passes every input on
form_params_all(inputs) ==
    LET others == CHOOSE q \in [1..Cardinality(DOMAIN inputs) -> DOMAIN inputs] :
                     \A i, j \in DOMAIN q : i # j => q[i] # q[j]
    IN  [i \in DOMAIN others |-> <<others[i], inputs[others[i]]>>]

\* line 68: {k: inputs[k] for k in ("id", "export", "confirm", "uuid") if k in inputs}
form_params(inputs) ==
    LET keys == SelectSeq(RecognizedParams, LAMBDA k : k \in DOMAIN inputs)
    IN  [i \in 1..Len(keys) |-> <<keys[i], inputs[keys[i]]>>]

\* lines 62-70: the form strategy
form_url(page, file_id) ==
    LET action == page.action
        inputs == setdefault(dict(page.inputs), "id", file_id)
        params == form_params(inputs)
    IN  IF action # NoAction /\ params # <<>> /\ StartsWith(action.lead, HTTP)
        THEN [kind |-> "form", base |-> action, params |-> urlencode(params)]
        ELSE NoUrl

\* what m.group(1) of each of the four patterns of lines 72-77 looks like
LinkMatch(i) ==
    CASE i = 1 -> Str(SLASH, "uc?export=download&confirm=t&id=x")
      [] i = 2 -> Str(HTTPS, "://drive.google.com/uc?export=download&id=x")
      [] i = 3 -> Str(HTTPS, "://drive.usercontent.google.com/download?id=x")
      [] OTHER -> Str(HTTPS, "://drive.usercontent.google.com/uc?id=x")

RECURSIVE Join(_)
Join(cs) == IF cs = <<>> THEN "" ELSE Head(cs) \o Join(Tail(cs))

\* lines 78-86: the first pattern that matches, made absolute
link_url(page) ==
    IF page.links = {} THEN NoUrl
    ELSE LET url == LinkMatch(MinOf(page.links))
         IN  [kind |-> "link",
              base |-> IF StartsWith(url.lead, SLASH)
                       THEN Str(HTTPS, "://drive.google.com" \o Join(url.lead) \o url.rest)
                       ELSE url,
              params |-> <<>>]

\* ([0-9A-Za-z_-]+): the longest run of token characters at the start
TokenChars == Range(UpperChars) \cup Range(LowerChars) \cup Range(Digits) \cup {"_", "-"}
RECURSIVE TokenRun(_)
TokenRun(after) ==
    IF after = <<>> \/ Head(after) \notin TokenChars THEN <<>>
    ELSE <<Head(after)>> \o TokenRun(Tail(after))

DOWNLOAD == <<"d","o","w","n","l","o","a","d">>

\* a variant of line 92 that writes the module's FILE_ID into the URL
canonical_url_fixed_id(confirm, file_id) ==
    [kind |-> "token", base |-> Str(HTTPS, "://drive.google.com/uc"),
     params |-> <<<<"export", DOWNLOAD>>, <<"confirm", confirm>>, <<"id", FILE_ID>>>>]

\* f"https://drive.google.com/uc?export=download&confirm={confirm}&id={file_id}"
canonical_url(confirm, file_id) ==
    [kind |-> "token", base |-> Str(HTTPS, "://drive.google.com/uc"),
     params |-> <<<<"export", DOWNLOAD>>, <<"confirm", confirm>>, <<"id", file_id>>>>]

\* lines 89-92: the first "confirm=" that a token follows
token_url(page, file_id) ==
    LET hits == { i \in DOMAIN page.confirms : TokenRun(page.confirms[i]) # <<>> }
    IN  IF hits = {} THEN NoUrl
        ELSE canonical_url(TokenRun(page.confirms[MinOf(hits)]), file_id)

\* a variant that looks for a token first and at the form last
extract_token_first(page, file_id) ==
    IF token_url(page, file_id) # NoUrl THEN token_url(page, file_id)
    ELSE IF link_url(page) # NoUrl THEN link_url(page)
    ELSE form_url(page, file_id)

_extract_download_url_from_html(page, file_id) ==
    IF form_url(page, file_id) # NoUrl THEN form_url(page, file_id)
    ELSE IF link_url(page) # NoUrl THEN link_url(page)
    ELSE token_url(page, file_id)

\* the action of Drive's download form
DOWNLOAD_ACTION == Str(HTTPS, "://drive.usercontent.google.com/download")
\* a page none of the patterns matches
PlainPage == [action |-> NoAction, inputs |-> <<>>, links |-> {}, confirms |-> <<>>]
\* the pages the server answers with
Pages ==
    { PlainPage,
      [action |-> DOWNLOAD_ACTION, inputs |-> <<<<"confirm", <<"t">>>>>>,
       links |-> {}, confirms |-> <<>>] }

(***************************************************************************)
(* Archive contents: files by directory and name.                          *)
(***************************************************************************)
File(dir, stem, ext) == [dir |-> dir, name |-> [stem |-> stem, ext |-> ext]]

\* the entries an archive may hold
Paths ==
    { File(<<"dataset">>, "a", "csv"),
      File(<<"dataset", "sub">>, "a", "csv"),
      File(<<"dataset">>, "notes", "txt"),
      File(<<>>, "a", "csv"),
      File(<<"sub">>, "b", "csv"),
      File(<<>>, "readme", "txt") }

Layouts == { S \in SUBSET Paths : Cardinality(S) <= MaxEntries }

\* Response bodies.  A zip body opens as a zip; "magic" says whether it starts
\* with a local file header (an empty or prefixed zip does not); "crc" says
\* whether every entry passes its CRC check.
ZipBody(m, c, e) ==
    [type |-> "zip", magic |-> m, crc |-> c, entries |-> e, page |-> PlainPage]
\* the ways the hosted archive e may arrive: as it is, behind a prefix, or
\* with an entry damaged (an empty archive has no entry and no file header)
ZipBodies(e) ==
    IF e = {} THEN { ZipBody(FALSE, TRUE, e) }
    ELSE { ZipBody(TRUE, TRUE, e), ZipBody(FALSE, TRUE, e), ZipBody(TRUE, FALSE, e) }
HtmlBodies ==
    { [type |-> "html", magic |-> FALSE, crc |-> FALSE, entries |-> {}, page |-> p] :
        p \in Pages }
\* what is on disk after a transfer broke off
PartialBody == [type |-> "partial", magic |-> FALSE, crc |-> FALSE, entries |-> {},
                page |-> PlainPage]
NoBody == [type |-> "none", magic |-> FALSE, crc |-> FALSE, entries |-> {},
           page |-> PlainPage]
Bodies(e) == ZipBodies(e) \cup HtmlBodies

\* resp.read(4)
FirstBytes(body) ==
    CASE body.type = "zip" /\ body.magic -> ZIP_MAGIC
      [] body.type = "zip" /\ body.entries = {} -> <<80, 75, 5, 6>>
      [] body.type = "zip" -> <<77, 90, 144, 0>>
      [] OTHER -> <<60, 33, 68, 79>>

\* (first + resp.read()).decode(...): the text the extractor sees
PageOf(body) == IF body.type = "html" THEN body.page ELSE PlainPage

\* zipfile.ZipFile(path, "r") succeeds
OpensAsZip(body) == body.type = "zip"

(***************************************************************************)
(* Path.rglob("*.csv") (lines 164, 167): the directory itself first, then  *)
(* its sub-directories, each in the order the file system lists them.      *)
(***************************************************************************)
\* the order in which a directory lists its sub-directories and its files
DirOrder == <<"dataset", "sub">>
StemOrder == <<"a", "b", "old", "notes", "readme">>

\* fnmatch(name, "*.csv")
IsCsv(name) == name.ext = "csv"

\* (root / d).is_dir()
IsDir(files, dir) == \E f \in files : StartsWith(f.dir, dir)

RECURSIVE rglob(_, _)
RECURSIVE rglob_dirs(_, _, _)
rglob(files, dir) ==
    LET names == { f.name : f \in { g \in files : g.dir = dir /\ IsCsv(g.name) } }
        stems == SelectSeq(StemOrder, LAMBDA s : \E n \in names : n.stem = s)
        here  == [i \in 1..Len(stems) |->
                     File(dir, stems[i], (CHOOSE n \in names : n.stem = stems[i]).ext)]
        subs  == SelectSeq(DirOrder, LAMBDA d : IsDir(files, Append(dir, d)))
    IN  here \o rglob_dirs(files, dir, subs)
rglob_dirs(files, dir, subs) ==
    IF subs = <<>> THEN <<>>
    ELSE rglob(files, Append(dir, Head(subs))) \o rglob_dirs(files, dir, Tail(subs))

\* a variant that searches the whole scratch directory at once
find_csvs_everywhere(files) == rglob(files, <<>>)

\* a variant without the fallback of lines 166-167
find_csvs_tier1_only(files) ==
    LET src_root == IF IsDir(files, <<"dataset">>) THEN <<"dataset">> ELSE <<>>
    IN  rglob(files, src_root)

\* lines 161-167: the files to copy, in copy order
find_csvs(files) ==
    LET src_root == IF IsDir(files, <<"dataset">>) THEN <<"dataset">> ELSE <<>>
        csvs     == rglob(files, src_root)
    IN  IF csvs = <<>> THEN rglob(files, <<>>) ELSE csvs

(***************************************************************************)
(* Directory contents: file name -> content.                               *)
(***************************************************************************)
NoPath == File(<<>>, "", "")
Stale == [origin |-> "stale", path |-> NoPath]
FromArchive(f) == [origin |-> "archive", path |-> f]
NoFiles == [n \in {} |-> Stale]

\* shutil.copy2(f, dest_dir / f.name)
copy2(files, f) ==
    [n \in DOMAIN files \cup {f.name} |-> IF n = f.name THEN FromArchive(f) ELSE files[n]]

\* the first k iterations of the loop of lines 175-176
RECURSIVE copy_loop(_, _, _)
copy_loop(files, csvs, k) ==
    IF k = 0 THEN files
    ELSE copy2(copy_loop(files, csvs, k - 1), csvs[k])

Restrict(files, S) == [n \in S |-> files[n]]

AbsentDir == [exists |-> FALSE, files |-> NoFiles]
Dir(files) == [exists |-> TRUE, files |-> files]

\* what shutil.rmtree can leave behind when it fails part-way
RmtreeLeftovers(d) == { Dir(Restrict(d.files, S)) : S \in SUBSET DOMAIN d.files }

NoFile == [exists |-> FALSE, body |-> NoBody]
OnDisk(body) == [exists |-> TRUE, body |-> body]

(***************************************************************************)
(* What the server may answer: headers and a body.                         *)
(***************************************************************************)
TEXT_HTML == <<"t","e","x","t","/","h","t","m","l">>

HeaderPairs ==
    { <<None, None>>,
      <<Some(TEXT_HTML), None>>,
      <<Some(APPLICATION_ZIP), None>>,
      <<Some(APPLICATION_OCTET_STREAM), Some(ATTACHMENT)>> }

\* the answers of a server that hosts the archive e
Responses(e) ==
    { [content_type |-> h[1], content_disp |-> h[2], body |-> b] :
        h \in HeaderPairs, b \in Bodies(e) }

\* what may lie in the base directory before a call
StaleDirs ==
    { AbsentDir,
      Dir([n \in {[stem |-> "a", ext |-> "csv"], [stem |-> "old", ext |-> "txt"]} |-> Stale]) }
StaleArchives ==
    { NoFile, OnDisk(PartialBody),
      OnDisk(ZipBody(TRUE, TRUE, {File(<<"dataset">>, "old", "csv")})) }

NoRun == [ok |-> FALSE, files |-> NoFiles]

(***************************************************************************)
(* State.                                                                  *)
(***************************************************************************)
VARIABLES
    hosted,        \* the entries of the archive the share link points to
    pc,            \* where ensure_dataset stands; "ready" before a call,
                   \* "returned" once it has returned or raised
    keep_zip,      \* the keep_zip argument of the call
    dataset_dir,   \* the Destination Directory  (base / "dataset")
    out_zip,       \* the Archive File           (base / "dataset.zip")
    tmp_dir,       \* the Scratch Directory of _extract_csvs
    confirm_url,   \* confirm_url / confirm_url2
    reqs,          \* open_url calls of this call
    written,       \* how the response written to out_zip in this call was classified
    selftest,      \* the Validator in this call: "notrun", "ok", "bad" (testzip's result)
    progress,      \* _extract_csvs in this call: 0 not entered, 1 scratch made,
                   \* 2 unpacking begun, 3 destination touched
    served,        \* the body written to out_zip in this call
    outcome,       \* how the last call ended: "none" while running, "ok", or the error
    raisedAt,      \* the source line of the raise or of the failing destination
                   \* call; 0 for a transport or zipfile error
    last,          \* the last finished call: ok, and the destination's files on return
    prev,          \* the call before the current (or last finished) one
    staleAtStart,  \* the destination held files when the current call began
    zipAtStart,    \* a file sat at the archive path when the current call began
    refreshed,     \* the destination as lines 196-197 of the current call left it
    third,         \* what the Classifier would say of the third response, which
                   \* the code does not ask: "none", "Binary", "Html"
    content_type, content_disp, first_bytes, is_zip,  \* the Classifier alone
    page, file_id, url                                \* the extractor alone

vars == <<hosted, pc, keep_zip, dataset_dir, out_zip, tmp_dir, confirm_url, reqs, written,
          selftest, progress, served, outcome, raisedAt, last, prev, staleAtStart,
          zipAtStart, refreshed, third, content_type, content_disp, first_bytes, is_zip,
          page, file_id, url>>

classifier_vars == <<content_type, content_disp, first_bytes, is_zip>>
extractor_vars == <<page, file_id, url>>

\* the extractor has not been called
NotExtracted == [kind |-> "unset", base |-> Str(<<>>, ""), params |-> <<>>]
fs_vars == <<dataset_dir, out_zip, tmp_dir>>

\* nothing downloaded, nothing on disk
Fresh ==
    /\ pc = "ready"
    /\ keep_zip = FALSE
    /\ dataset_dir = AbsentDir
    /\ out_zip = NoFile
    /\ tmp_dir = AbsentDir
    /\ confirm_url = NoUrl
    /\ reqs = 0
    /\ written = "none"
    /\ selftest = "notrun"
    /\ progress = 0
    /\ served = NoBody
    /\ outcome = "none"
    /\ raisedAt = 0
    /\ last = NoRun
    /\ prev = NoRun
    /\ staleAtStart = FALSE
    /\ zipAtStart = FALSE
    /\ refreshed = AbsentDir
    /\ third = "none"

Init ==
    /\ hosted \in Layouts
    /\ Fresh
    /\ content_type = None
    /\ content_disp = None
    /\ first_bytes = <<>>
    /\ is_zip = "unset"
    /\ page = PlainPage
    /\ file_id = FILE_ID
    /\ url = NotExtracted

\* the RuntimeError messages, by the line of the raise: the text, and whether
\* SHARE_URL is formatted into it
error_message(line) ==
    CASE line = 127 ->
           [text |-> "Failed to obtain Google Drive download URL/confirm token.",
            share_url |-> TRUE]
      [] line = 138 ->
           [text |-> "Download still returned HTML (not a zip).", share_url |-> FALSE]
      [] line = 152 ->
           [text |-> "Downloaded file is not a valid zip.", share_url |-> FALSE]
      [] line = 169 ->
           [text |-> "No CSV files found after extraction.", share_url |-> FALSE]
      [] OTHER -> [text |-> "", share_url |-> FALSE]

\* an exception leaves ensure_dataset
Raise(kind, line) ==
    /\ pc' = "returned"
    /\ outcome' = kind
    /\ raisedAt' = line
    /\ last' = NoRun

(***************************************************************************)
(* The environment between calls.                                          *)
(***************************************************************************)
\* other programs may add files to the destination
WithStale(d) ==
    IF d.exists
    THEN Dir([n \in DOMAIN d.files \cup {[stem |-> "old", ext |-> "csv"]} |->
                IF n \in DOMAIN d.files THEN d.files[n] ELSE Stale])
    ELSE d

Env ==
    /\ pc \in {"ready", "returned"}
    /\ pc' = "ready"
    /\ dataset_dir' \in StaleDirs \cup {dataset_dir, WithStale(dataset_dir)}
    /\ out_zip' \in StaleArchives \cup {out_zip}
    /\ <<dataset_dir', out_zip'>> # <<dataset_dir, out_zip>>
    \* what is recorded about the call that has returned is dropped
    /\ keep_zip' = FALSE
    /\ confirm_url' = NoUrl
    /\ reqs' = 0
    /\ written' = "none"
    /\ selftest' = "notrun"
    /\ progress' = 0
    /\ served' = NoBody
    /\ outcome' = "none"
    /\ raisedAt' = 0
    /\ staleAtStart' = FALSE
    /\ zipAtStart' = FALSE
    /\ refreshed' = AbsentDir
    /\ third' = "none"
    /\ UNCHANGED <<hosted, tmp_dir, last, prev, classifier_vars, extractor_vars>>

(***************************************************************************)
(* ensure_dataset, lines 192-203: refresh the destination, drop an old     *)
(* archive, then download.                                                 *)
(***************************************************************************)
\* shutil.rmtree(dataset_dir, ignore_errors=True)
rmtree_ignore_errors(d) == {AbsentDir} \cup RmtreeLeftovers(d)

Start ==
    /\ pc \in {"ready", "returned"}
    /\ \E k \in BOOLEAN : keep_zip' = k
    /\ IF dataset_dir.exists
       THEN dataset_dir' \in rmtree_ignore_errors(dataset_dir)
       ELSE dataset_dir' = dataset_dir
    /\ out_zip' = IF out_zip.exists /\ ~keep_zip' THEN NoFile ELSE out_zip
    /\ staleAtStart' = (dataset_dir.exists /\ DOMAIN dataset_dir.files # {})
    /\ zipAtStart' = out_zip.exists
    /\ refreshed' = dataset_dir'
    /\ third' = "none"
    /\ prev' = last
    /\ pc' = "hop1"
    /\ confirm_url' = NoUrl
    /\ reqs' = 0
    /\ written' = "none"
    /\ selftest' = "notrun"
    /\ progress' = 0
    /\ served' = NoBody
    /\ outcome' = "none"
    /\ raisedAt' = 0
    /\ UNCHANGED <<hosted, tmp_dir, last, classifier_vars, extractor_vars>>

(***************************************************************************)
(* _download_gdrive_zip, lines 97-152.                                     *)
(***************************************************************************)
\* lines 116, 134: the Classifier on the headers and the first four bytes
Classification(r) ==
    IF _is_zip_response(r.content_type, r.content_disp, FirstBytes(r.body))
    THEN "Binary" ELSE "Html"

\* open_url raised (DNS, connection, HTTP error)
TransportFails ==
    /\ reqs' = reqs + 1
    /\ Raise("TransportError", 0)
    /\ UNCHANGED <<hosted, keep_zip, fs_vars, confirm_url, written, selftest, progress, served,
                   prev, staleAtStart, zipAtStart, refreshed, third, classifier_vars, extractor_vars>>

\* open(out_zip, "wb") ... copyfileobj: the body reaches the disk, or the
\* transfer breaks off and leaves what was written so far
WriteArchive(r, class, next) ==
    /\ reqs' = reqs + 1
    /\ written' = class
    /\ \/ /\ out_zip' = OnDisk(r.body)
          /\ served' = r.body
          /\ pc' = next
          /\ UNCHANGED <<outcome, raisedAt, last>>
       \/ /\ out_zip' = OnDisk(PartialBody)
          /\ served' = PartialBody
          /\ Raise("TransportError", 0)
    /\ third' = IF class = "Unclassified" THEN Classification(r) ELSE third
    /\ UNCHANGED <<hosted, keep_zip, dataset_dir, tmp_dir, confirm_url, selftest, progress,
                   prev, staleAtStart, zipAtStart, refreshed, classifier_vars, extractor_vars>>

\* a variant that, finding no follow-up URL, goes on to the extraction with
\* whatever sits at the archive path
NegotiateOrReuse(r, line, next) ==
    LET found == _extract_download_url_from_html(PageOf(r.body), FILE_ID)
    IN  /\ reqs' = reqs + 1
        /\ confirm_url' = found
        /\ pc' = IF found = NoUrl THEN "extract" ELSE next
        /\ UNCHANGED <<outcome, raisedAt, last>>
        /\ UNCHANGED <<hosted, keep_zip, fs_vars, written, selftest, progress, served,
                       prev, staleAtStart, zipAtStart, refreshed, third, classifier_vars, extractor_vars>>

\* the page of an interstitial is read and searched for the follow-up URL
Negotiate(r, line, next) ==
    LET found == _extract_download_url_from_html(PageOf(r.body), FILE_ID)
    IN  /\ reqs' = reqs + 1
        /\ confirm_url' = found
        /\ IF found = NoUrl
           THEN Raise("InterstitialUnresolved", line)
           ELSE pc' = next /\ UNCHANGED <<outcome, raisedAt, last>>
        /\ UNCHANGED <<hosted, keep_zip, fs_vars, written, selftest, progress, served,
                       prev, staleAtStart, zipAtStart, refreshed, third, classifier_vars, extractor_vars>>

\* lines 112-130: the initial request.  A zip is written and the function
\* returns (line 120); otherwise the page must give a follow-up URL.
Hop1 ==
    /\ pc = "hop1"
    /\ \/ TransportFails
       \/ \E r \in Responses(hosted) :
            IF Classification(r) = "Binary"
            THEN WriteArchive(r, "Binary", "extract")
            ELSE Negotiate(r, 127, "hop2")

\* lines 132-138, 142-145: the first follow-up
Hop2 ==
    /\ pc = "hop2"
    /\ \/ TransportFails
       \/ \E r \in Responses(hosted) :
            IF Classification(r) = "Binary"
            THEN WriteArchive(r, "Binary", "validate")
            ELSE Negotiate(r, 138, "hop3")

\* a variant that keeps negotiating while the answer is a page
Hop3Looping ==
    /\ pc = "hop3"
    /\ \/ TransportFails
       \/ \E r \in Responses(hosted) :
            IF Classification(r) = "Binary"
            THEN WriteArchive(r, "Binary", "validate")
            ELSE Negotiate(r, 138, "hop3")

\* lines 139-141: the second follow-up; its body is written as it comes
Hop3 ==
    /\ pc = "hop3"
    /\ \/ TransportFails
       \/ \E r \in Responses(hosted) : WriteArchive(r, "Unclassified", "validate")

\* lines 147-152: ZipFile(out_zip) raises BadZipFile when the file is not a
\* zip; the value testzip() returns is dropped
Validate ==
    /\ pc = "validate"
    /\ IF OpensAsZip(out_zip.body)
       THEN /\ selftest' = IF out_zip.body.crc THEN "ok" ELSE "bad"
            /\ pc' = "extract"
            /\ UNCHANGED <<outcome, raisedAt, last>>
       ELSE /\ selftest' = "notrun"
            /\ Raise("InvalidArchive", 152)
    /\ UNCHANGED <<hosted, keep_zip, fs_vars, confirm_url, reqs, written, progress, served,
                   prev, staleAtStart, zipAtStart, refreshed, third, classifier_vars, extractor_vars>>

(***************************************************************************)
(* _extract_csvs, lines 155-178.                                           *)
(***************************************************************************)
\* a variant whose cleanup runs on the successful path only
cleanup_on_success_only(ok) == IF ok THEN AbsentDir ELSE tmp_dir

\* the finally clause, line 178: shutil.rmtree(tmp_dir, ignore_errors=True)
\* on a directory this process has just made
cleanup(ok) == AbsentDir

\* line 156: tempfile.mkdtemp
Mkdtemp ==
    /\ pc = "extract"
    /\ tmp_dir' = Dir(NoFiles)
    /\ progress' = 1
    /\ pc' = "unpack"
    /\ UNCHANGED <<hosted, keep_zip, dataset_dir, out_zip, confirm_url, reqs, written, selftest,
                   served, outcome, raisedAt, last, prev, staleAtStart, zipAtStart, refreshed, third, classifier_vars, extractor_vars>>

\* lines 158-159: ZipFile(zip_path) raises on a file that is not a zip;
\* extractall raises on the first entry whose CRC is wrong
Unpack ==
    /\ pc = "unpack"
    /\ IF ~OpensAsZip(out_zip.body)
       THEN /\ tmp_dir' = cleanup(FALSE)
            /\ progress' = progress
            /\ Raise("BadZipFile", 0)
       ELSE IF ~out_zip.body.crc
       THEN /\ tmp_dir' = cleanup(FALSE)
            /\ progress' = 2
            /\ Raise("BadZipFile", 0)
       ELSE /\ tmp_dir' = Dir([n \in out_zip.body.entries |-> Stale])
            /\ progress' = 2
            /\ pc' = "search"
            /\ UNCHANGED <<outcome, raisedAt, last>>
    /\ UNCHANGED <<hosted, keep_zip, dataset_dir, out_zip, confirm_url, reqs, written, selftest,
                   served, prev, staleAtStart, zipAtStart, refreshed, third, classifier_vars, extractor_vars>>

\* a variant that creates the destination before it looks at the matches
SearchAfterCreate ==
    /\ pc = "search"
    /\ IF find_csvs(DOMAIN tmp_dir.files) = <<>>
       THEN /\ tmp_dir' = cleanup(FALSE)
            /\ dataset_dir' = Dir(NoFiles)
            /\ Raise("NoMatchingFiles", 169)
       ELSE /\ tmp_dir' = tmp_dir
            /\ dataset_dir' = dataset_dir
            /\ pc' = "materialize"
            /\ UNCHANGED <<outcome, raisedAt, last>>
    /\ UNCHANGED <<hosted, keep_zip, out_zip, confirm_url, reqs, written, selftest,
                   progress, served, prev, staleAtStart, zipAtStart, refreshed, third, classifier_vars, extractor_vars>>

\* lines 161-169
Search ==
    /\ pc = "search"
    /\ IF find_csvs(DOMAIN tmp_dir.files) = <<>>
       THEN /\ tmp_dir' = cleanup(FALSE)
            /\ Raise("NoMatchingFiles", 169)
       ELSE /\ tmp_dir' = tmp_dir
            /\ pc' = "materialize"
            /\ UNCHANGED <<outcome, raisedAt, last>>
    /\ UNCHANGED <<hosted, keep_zip, dataset_dir, out_zip, confirm_url, reqs, written, selftest,
                   progress, served, prev, staleAtStart, zipAtStart, refreshed, third, classifier_vars, extractor_vars>>

\* a variant that creates the destination without removing an existing one
replace_dest_keeping(d, csvs) == Dir(copy_loop(d.files, csvs, Len(csvs)))

\* lines 171-176 when nothing fails: remove, create, copy every file
replace_dest(d, csvs) == Dir(copy_loop(NoFiles, csvs, Len(csvs)))

\* lines 171-178: the destination is removed, created and populated; each
\* of the three may fail with an OSError
Materialize ==
    LET csvs == find_csvs(DOMAIN tmp_dir.files)
    IN  /\ pc = "materialize"
        /\ progress' = 3
        /\ \/ /\ dataset_dir.exists
              /\ dataset_dir' \in RmtreeLeftovers(dataset_dir)
              /\ tmp_dir' = cleanup(FALSE)
              /\ Raise("OSError", 172)
           \/ /\ dataset_dir' = AbsentDir
              /\ tmp_dir' = cleanup(FALSE)
              /\ Raise("OSError", 173)
           \/ /\ \E k \in 0..(Len(csvs) - 1) :
                    dataset_dir' = Dir(copy_loop(NoFiles, csvs, k))
              /\ tmp_dir' = cleanup(FALSE)
              /\ Raise("OSError", 176)
           \/ /\ dataset_dir' = replace_dest(dataset_dir, csvs)
              /\ tmp_dir' = cleanup(TRUE)
              /\ pc' = "finish"
              /\ UNCHANGED <<outcome, raisedAt, last>>
        /\ UNCHANGED <<hosted, keep_zip, out_zip, confirm_url, reqs, written, selftest, served,
                       prev, staleAtStart, zipAtStart, refreshed, third, classifier_vars, extractor_vars>>

(***************************************************************************)
(* ensure_dataset, lines 209-213.                                          *)
(***************************************************************************)
\* a variant that removes the archive whatever keep_zip says
FinishAlwaysUnlink ==
    /\ pc = "finish"
    /\ out_zip' = NoFile
    /\ outcome' = "ok"
    /\ last' = [ok |-> TRUE, files |-> dataset_dir.files]
    /\ pc' = "returned"
    /\ UNCHANGED <<hosted, keep_zip, dataset_dir, tmp_dir, confirm_url, reqs, written, selftest,
                   progress, served, raisedAt, prev, staleAtStart, zipAtStart, refreshed, third, classifier_vars, extractor_vars>>

Finish ==
    /\ pc = "finish"
    /\ out_zip' = IF ~keep_zip /\ out_zip.exists THEN NoFile ELSE out_zip
    /\ outcome' = "ok"
    /\ last' = [ok |-> TRUE, files |-> dataset_dir.files]
    /\ pc' = "returned"
    /\ UNCHANGED <<hosted, keep_zip, dataset_dir, tmp_dir, confirm_url, reqs, written, selftest,
                   progress, served, raisedAt, prev, staleAtStart, zipAtStart, refreshed, third, classifier_vars, extractor_vars>>

Next ==
    \/ Env
    \/ Start
    \/ Hop1
    \/ Hop2
    \/ Hop3
    \/ Validate
    \/ Mkdtemp
    \/ Unpack
    \/ Search
    \/ Materialize
    \/ Finish

Spec == Init /\ [][Next]_vars

(***************************************************************************)
(* The Classifier alone: _is_zip_response applied to every combination of  *)
(* header values and byte prefixes.                                        *)
(***************************************************************************)
UPPER_APPLICATION_ZIP == <<"A","P","P","L","I","C","A","T","I","O","N","/","Z","I","P">>
MIXED_OCTET_STREAM ==
    <<"A","p","p","l","i","c","a","t","i","o","n","/",
      "O","c","t","e","t","-","S","t","r","e","a","m">>
MIXED_ATTACHMENT == <<"A","t","t","a","c","h","m","e","n","t">>
INLINE == <<"i","n","l","i","n","e">>
SEMICOLON == <<";", " ">>

TypeFragments ==
    { APPLICATION_ZIP, UPPER_APPLICATION_ZIP, APPLICATION_OCTET_STREAM,
      MIXED_OCTET_STREAM, TEXT_HTML, SEMICOLON }
DispFragments == { ATTACHMENT, MIXED_ATTACHMENT, INLINE, SEMICOLON }

\* the strings made of at most n fragments
RECURSIVE Concats(_, _)
Concats(frags, n) ==
    IF n = 0 THEN { <<>> }
    ELSE LET shorter == Concats(frags, n - 1)
         IN  shorter \cup { s \o f : s \in shorter, f \in frags }

HeaderValues(frags) == { None } \cup { Some(s) : s \in Concats(frags, MaxParts) }

\* what resp.read(4) may give: the signature, other zip records, a page, a
\* body shorter than four bytes
BytePrefixes ==
    { ZIP_MAGIC, <<80, 75, 5, 6>>, <<80, 75, 3>>, <<60, 33, 68, 79>>, <<>> }

ClassifyInit ==
    /\ hosted = {}
    /\ Fresh
    /\ content_type \in HeaderValues(TypeFragments)
    /\ content_disp \in HeaderValues(DispFragments)
    /\ first_bytes \in BytePrefixes
    /\ is_zip = "unset"
    /\ page = PlainPage
    /\ file_id = FILE_ID
    /\ url = NotExtracted

Classify ==
    /\ is_zip = "unset"
    /\ is_zip' = IF _is_zip_response(content_type, content_disp, first_bytes)
                 THEN "Binary" ELSE "Html"
    /\ UNCHANGED <<hosted, pc, keep_zip, fs_vars, confirm_url, reqs, written, selftest,
                   progress, served, outcome, raisedAt, last, prev, staleAtStart,
                   zipAtStart, refreshed, third, content_type, content_disp, first_bytes,
                   extractor_vars>>

ClassifyNext == Classify

ClassifySpec == ClassifyInit /\ [][ClassifyNext]_vars

(***************************************************************************)
(* The extractor alone: _extract_download_url_from_html applied to a page  *)
(* and a file id.                                                          *)
(***************************************************************************)
\* form actions: none, Drive's, the same over http, a server-relative path,
\* a scheme-relative one
Actions ==
    { NoAction, DOWNLOAD_ACTION,
      Str(HTTP, "://drive.usercontent.google.com/download"),
      Str(SLASH, "download"),
      Str(SLASH, "/drive.usercontent.google.com/download") }

\* the inputs of a page, in document order, each with its value
DocumentInputs ==
    << <<"at", <<"A","T","=","1">>>>,
       <<"uuid", <<"u","/","1">>>>,
       <<"confirm", <<"t">>>>,
       <<"export", DOWNLOAD>>,
       <<"id", <<"f","o","r","m"," ","i","d">>>> >>
InputNames == { DocumentInputs[i][1] : i \in DOMAIN DocumentInputs }
\* the inputs named in S, with or without a second confirm input after them
InputsOf(S, again) ==
    SelectSeq(DocumentInputs, LAMBDA pr : pr[1] \in S)
        \o (IF again THEN << <<"confirm", <<"t","2">>>> >> ELSE <<>>)

XYZ123 == <<"X","Y","Z","1","2","3">>
\* what follows the "confirm=" occurrences of a page: none; a token at the end
\* of the text; a token with more text behind it; a quote, then a token
Confirms ==
    { <<>>,
      <<XYZ123>>,
      <<XYZ123 \o <<"&","i","d","=","1">>>>,
      << <<"\"">>, <<"t","_","2","-","x","\"">> >> }

ExtractPages ==
    { [action |-> a, inputs |-> InputsOf(S, again), links |-> l, confirms |-> c] :
        a \in Actions, S \in SUBSET InputNames, again \in BOOLEAN,
        l \in SUBSET (1..4), c \in Confirms }

FileIds == { FILE_ID, <<"a","/","b">> }

ExtractInit ==
    /\ hosted = {}
    /\ Fresh
    /\ content_type = None
    /\ content_disp = None
    /\ first_bytes = <<>>
    /\ is_zip = "unset"
    /\ page \in ExtractPages
    /\ file_id \in FileIds
    /\ url = NotExtracted

Extract ==
    /\ url = NotExtracted
    /\ url' = _extract_download_url_from_html(page, file_id)
    /\ UNCHANGED <<hosted, pc, keep_zip, fs_vars, confirm_url, reqs, written, selftest,
                   progress, served, outcome, raisedAt, last, prev, staleAtStart,
                   zipAtStart, refreshed, third, classifier_vars, page, file_id>>

ExtractNext == Extract

ExtractSpec == ExtractInit /\ [][ExtractNext]_vars

(***************************************************************************)
(* Properties.                                                             *)
(***************************************************************************)
Returned == pc = "returned"
\* a body arrived whole and was written to the Archive File in this call
Downloaded == written # "none" /\ served.type \notin {"none", "partial"}

\* C1: one call issues at most 3 GET requests, 1 initial and at most 2
\* follow-ups; the request count is fixed by the hop the call stands at, so
\* no hop is ever repeated and the negotiation cannot go on for ever.
C1_HopBound ==
    /\ reqs <= 3
    /\ pc = "hop1" => reqs = 0
    /\ pc = "hop2" => reqs = 1
    /\ pc = "hop3" => reqs = 2
    /\ pc \in {"validate", "extract", "unpack", "search", "materialize", "finish"}
          => reqs \in 1..3
C1_Witness == Returned /\ reqs = 3 /\ third = "Html"

\* C2: when the third response is itself an HTML interstitial the call fails
\* with InterstitialUnresolved; that response is not written to the Archive
\* File, and neither validation nor extraction follows.
C2_ThirdHtmlUnresolved ==
    third = "Html" =>
        /\ Returned
        /\ outcome = "InterstitialUnresolved"
        /\ written = "none"
        /\ selftest = "notrun"
        /\ progress = 0

\* C3: whichever hop delivered the archive, _extract_csvs is entered only
\* after the Validator has run on the Archive File and passed.
C3_ValidatedBeforeExtraction == progress >= 1 => selftest = "ok"

\* C4: a downloaded Archive File that cannot be opened as a zip, or whose
\* self-test reports a bad entry, makes the call fail with InvalidArchive
\* and no extraction step (scratch directory, unpacking, destination) happens.
C4_CorruptArchiveRejected ==
    (Downloaded /\ (~OpensAsZip(served) \/ ~served.crc)) =>
        /\ progress = 0
        /\ Returned => outcome = "InvalidArchive"

\* C5: with keep_zip false the Archive File does not exist when the call
\* returns or raises, on every path.
C5_ArchiveRemovedOnEveryPath == (Returned /\ ~keep_zip) => ~out_zip.exists

NoCsvIn(body) == \A f \in body.entries : f.name.ext # "csv"

\* C7 as claimed: after NoMatchingFiles the Destination Directory holds no
\* file, neither of this run nor of an earlier one.
C7_NoFilesAfterNoMatch ==
    (Returned /\ outcome = "NoMatchingFiles") => DOMAIN dataset_dir.files = {}

\* C7 amended: a valid archive with no matching file makes the call fail
\* with NoMatchingFiles, and then the Destination Directory has not been
\* touched by extraction: it is what the removal of line 197 left, which is
\* nothing when that removal succeeded.
C7_NoMatchLeavesRefreshedDest ==
    /\ (Returned /\ progress >= 2 /\ OpensAsZip(served) /\ served.crc /\ NoCsvIn(served))
          => outcome = "NoMatchingFiles"
    /\ (Returned /\ outcome = "NoMatchingFiles")
          => /\ NoCsvIn(served)
             /\ progress < 3
             /\ dataset_dir = refreshed
             /\ ~staleAtStart => DOMAIN dataset_dir.files = {}
C7_Witness ==
    Returned /\ outcome = "NoMatchingFiles" /\ staleAtStart /\ ~dataset_dir.exists

\* the search rule, stated on the archive's entries
UnderDataset(f) == Len(f.dir) >= 1 /\ f.dir[1] = "dataset"
Matched(entries) ==
    LET tier1 == { f \in entries : UnderDataset(f) /\ f.name.ext = "csv" }
    IN  IF tier1 # {} THEN tier1 ELSE { f \in entries : f.name.ext = "csv" }

\* C8: after a successful call the Destination Directory holds exactly the
\* base names of the matched files, each a copy of a matched file of that
\* name, and nothing else.
C8_ExactlyMatchedFiles ==
    (Returned /\ outcome = "ok") =>
        /\ dataset_dir.exists
        /\ DOMAIN dataset_dir.files = { f.name : f \in Matched(served.entries) }
        /\ \A n \in DOMAIN dataset_dir.files :
              /\ dataset_dir.files[n].origin = "archive"
              /\ dataset_dir.files[n].path \in Matched(served.entries)
              /\ dataset_dir.files[n].path.name = n
C8_Witness ==
    /\ Returned /\ outcome = "ok" /\ staleAtStart
    /\ Cardinality(Matched(served.entries)) > Cardinality(DOMAIN dataset_dir.files)

\* C9: two consecutive successful calls on the same archive leave the same
\* Destination Directory contents, and nothing that was there when the
\* second call began survives it.
C9_Idempotent ==
    (Returned /\ outcome = "ok" /\ prev.ok) =>
        /\ dataset_dir.files = prev.files
        /\ last.files = prev.files
        /\ \A n \in DOMAIN dataset_dir.files : dataset_dir.files[n].origin # "stale"
C9_Witness ==
    /\ Returned /\ outcome = "ok" /\ prev.ok /\ staleAtStart
    /\ refreshed.exists

\* ---- the Classifier's rule, stated on the raw header values ----
\* the header is present and holds word, whatever the case of its letters
HasIgnoringCase(h, word) ==
    /\ h.present
    /\ \E k \in 0..(Len(h.val) - Len(word)) :
          \A j \in 1..Len(word) : LowerChar(h.val[k + j]) = word[j]
MagicPrefix ==
    Len(first_bytes) >= 4 /\ \A i \in 1..4 : first_bytes[i] = ZIP_MAGIC[i]

\* C10: Binary whenever the first 4 bytes are the signature, whatever the
\* headers; otherwise Binary exactly when Content-Type contains the archive
\* MIME type, or it names the generic binary stream and Content-Disposition
\* names an attachment; Html in all other cases.
C10_ClassifierRule ==
    is_zip # "unset" =>
        /\ MagicPrefix => is_zip = "Binary"
        /\ ~MagicPrefix =>
              (is_zip = "Binary" <=>
                 \/ HasIgnoringCase(content_type, APPLICATION_ZIP)
                 \/ /\ HasIgnoringCase(content_type, APPLICATION_OCTET_STREAM)
                    /\ HasIgnoringCase(content_disp, ATTACHMENT))
        /\ is_zip \in {"Binary", "Html"}
C10_Witness ==
    /\ is_zip = "Binary"
    /\ first_bytes = ZIP_MAGIC
    /\ content_type = Some(TEXT_HTML)
    /\ content_disp = Some(INLINE)

\* C11: after a successful call with keep_zip false the Archive File does
\* not exist; with keep_zip true it exists and holds the bytes downloaded in
\* this call.
C11_KeepArchive ==
    (Returned /\ outcome = "ok") =>
        /\ ~keep_zip => ~out_zip.exists
        /\ keep_zip => (Downloaded /\ out_zip = OnDisk(served))
C11_Witness ==
    /\ Returned /\ outcome = "ok" /\ keep_zip
    /\ out_zip.exists /\ out_zip.body.entries = hosted

\* C15: the Archive File is written only with the body of a response the
\* Classifier classified as Binary, never with an unclassified or Html one.
C15_OnlyBinaryWritten == written \in {"none", "Binary"}

\* C16: every failed negotiation raises an error whose message references
\* the share link.
C16_FailureNamesShareLink ==
    (Returned /\ outcome = "InterstitialUnresolved") => error_message(raisedAt).share_url

\* C18: when the Destination Directory exists and removing it fails, the
\* run is not aborted by that failure.
C18_RemovalFailureDoesNotAbort ==
    ~(Returned /\ outcome = "OSError" /\ raisedAt = 172)

\* C19: the Destination Directory is removed before the first request and
\* not touched again until population, so when the removal succeeded and the
\* call then fails (transport, negotiation, invalid archive, no matching
\* files) the Destination Directory does not exist afterwards.
FailedBeforePopulation ==
    /\ Returned
    /\ outcome \in {"TransportError", "InterstitialUnresolved", "InvalidArchive",
                    "BadZipFile", "NoMatchingFiles"}
C19_FailureLeavesNoDestination ==
    /\ (reqs >= 1 /\ progress < 3) => dataset_dir = refreshed
    /\ (FailedBeforePopulation /\ ~refreshed.exists) => ~dataset_dir.exists
C19_Witness ==
    /\ FailedBeforePopulation /\ outcome = "NoMatchingFiles"
    /\ staleAtStart /\ ~refreshed.exists /\ ~dataset_dir.exists

\* C20: the extraction is reached only after this call wrote the archive
\* path from a response and the download returned without raising, whatever
\* keep_zip is and whether or not a file was at the archive path before.
InExtraction == pc \in {"extract", "unpack", "search", "materialize", "finish"}
C20_ExtractsThisCallsArchive ==
    InExtraction =>
        /\ reqs >= 1 /\ written # "none"
        /\ served # NoBody /\ served # PartialBody
        /\ out_zip = OnDisk(served)
        /\ outcome = "none"
C20_Witness ==
    /\ InExtraction /\ zipAtStart /\ keep_zip
    /\ out_zip = OnDisk(served) /\ served.entries = hosted

\* C12: when no matching file lies under a top-level dataset directory
\* (there is none, or it holds no match) but the archive has matching files
\* elsewhere, the search falls back to the scratch root and succeeds; and
\* with no dataset directory the Destination Directory gets the same contents
\* as it would if the same entries sat under dataset/.
Tier1(entries) == { f \in entries : UnderDataset(f) /\ f.name.ext = "csv" }
Relocate(f) == File(<<"dataset">> \o f.dir, f.name.stem, f.name.ext)
Relocated(files) == [n \in DOMAIN files |-> FromArchive(Relocate(files[n].path))]
C12_FallbackSameContents ==
    /\ (Returned /\ outcome = "NoMatchingFiles") => NoCsvIn(served)
    /\ (Returned /\ outcome = "ok" /\ Tier1(served.entries) = {}) =>
          LET all   == rglob(served.entries, <<>>)
              under == find_csvs({ Relocate(f) : f \in served.entries })
          IN  /\ all # <<>>
              /\ dataset_dir = Dir(copy_loop(NoFiles, all, Len(all)))
              /\ ~IsDir(served.entries, <<"dataset">>) =>
                    Relocated(dataset_dir.files) = copy_loop(NoFiles, under, Len(under))
C12_Witness ==
    /\ Returned /\ outcome = "ok"
    /\ served.entries = {File(<<>>, "a", "csv"), File(<<"sub">>, "b", "csv")}
    /\ DOMAIN dataset_dir.files =
          {[stem |-> "a", ext |-> "csv"], [stem |-> "b", ext |-> "csv"]}

\* an action that begins with a scheme, not with a slash
IsAbsolute(action) ==
    action.lead # <<>> /\ Range(action.lead) \subseteq Range(LowerChars)
\* some "confirm=" of the page is followed by a token character
HasToken(p) ==
    \E i \in DOMAIN p.confirms :
        p.confirms[i] # <<>> /\ Head(p.confirms[i]) \in TokenChars
Extracted == url # NotExtracted

C14_TokenUrl ==
    (Extracted /\ page.action = NoAction /\ page.links = {}) =>
        IF HasToken(page)
        THEN LET first == MinOf({ i \in DOMAIN page.confirms :
                                    page.confirms[i] # <<>>
                                    /\ Head(page.confirms[i]) \in TokenChars })
                 after == page.confirms[first]
                 token == url.params[2][2]
             IN  /\ url.base = Str(HTTPS, "://drive.google.com/uc")
                 /\ Len(url.params) = 3
                 /\ url.params[1] = <<"export", DOWNLOAD>>
                 /\ url.params[2][1] = "confirm"
                 /\ url.params[3] = <<"id", file_id>>
                 /\ token # <<>> /\ Range(token) \subseteq TokenChars
                 /\ StartsWith(after, token)
                 /\ Len(after) > Len(token) => after[Len(token) + 1] \notin TokenChars
        ELSE url = NoUrl
C14_Witness ==
    /\ Extracted /\ page.action = NoAction /\ page.links = {}
    /\ page.confirms = <<XYZ123 \o <<"&","i","d","=","1">>>>
    /\ file_id # FILE_ID
    /\ url.params = <<<<"export", DOWNLOAD>>, <<"confirm", XYZ123>>, <<"id", file_id>>>>

\* C17: the form is tried first, then the four link patterns in their
\* order, then the confirm token, and the first that succeeds decides: an
\* absolute-action form wins over links and tokens, a form whose action is
\* not absolute is passed over, and no URL is returned only when all fail.
FormAccepted(p) == p.action # NoAction /\ IsAbsolute(p.action)
====
